---------------------------- MODULE Spec2Model ----------------------------
(***************************************************************************)
(* A model of the access-log filter of this repository: src/cli.py (the    *)
(* multi-token variant) and src/logparse.py (the single key/value          *)
(* variant).                                                               *)
(*                                                                         *)
(* Representation of Python values:                                        *)
(*   - a str that is scanned character by character (the log text, one     *)
(*     line of it) is a sequence of one-character strings; a captured      *)
(*     group is joined back into a TLA+ string;                            *)
(*   - a filter token is a sequence of pieces, each piece either the       *)
(*     separator "=" or a string that holds no "=";                        *)
(*   - a dict is a sequence of [k, v] pairs in insertion order;            *)
(*   - a csv file is a sequence of rows, a row a sequence of cells, and    *)
(*     Absent when the path does not exist.                                *)
(***************************************************************************)
EXTENDS Integers, Sequences, FiniteSets, TLC

VARIABLES
    pc,            \* position of the scenario being run
    log,           \* parse_log_data: the text handed in, a sequence of lines
    data,          \* the records parsed from log / handed to filter_data
    filter_list,   \* cli.py --filter tokens (<<>> when the option is not given)
    filtered,      \* what filter_data produced: [raised, value, logged]
    filter_key,    \* logparse.py -k
    filter_value,  \* logparse.py -e
    file_list,     \* -f: the input files of a run, in order
    file_no,       \* read_files: index of the file the loop is at
    destination,   \* the output csv file: Absent or its rows
    exit_code,     \* what main returned: "running", "None" or 255
    counts,        \* the record counts logged so far, one <<file, n>> each
    sunk,          \* history: the (source, data) pairs given to write_output_file
    opened,        \* history: the names of the files opened and read
    run_no,        \* number of runs started against the destination
    named,         \* history: number of files named by -f in all runs so far
    writers,       \* concurrent write_output_file invocations, by writer id
    serialised     \* whether the writers hold an external lock around the call

vars == << pc, log, data, filter_list, filtered, filter_key, filter_value,
           file_list, file_no, destination, exit_code, counts, sunk, opened,
           run_no, named, writers, serialised >>

---------------------------------------------------------------------------
(* Bounds of the model.                                                    *)

MaxLines == 2

MaxTokens == 2

MaxFiles == 3

MaxRows == 2

---------------------------------------------------------------------------
(* Strings.                                                                *)

Min(a, b) == IF a < b THEN a ELSE b

RECURSIVE Join(_)
\* "".join(chars): the str made of a sequence of one-character strings
Join(chars) == IF chars = << >> THEN "" ELSE Head(chars) \o Join(Tail(chars))

RECURSIVE Flatten(_)
\* concatenation of a sequence of sequences
Flatten(ss) == IF ss = << >> THEN << >> ELSE Head(ss) \o Flatten(Tail(ss))

Digit == {"0", "1", "2", "3", "4", "5", "6", "7", "8", "9"}

Letter == {"a", "b", "c", "d", "e", "f", "g", "h", "i", "j", "k", "l", "m",
           "n", "o", "p", "q", "r", "s", "t", "u", "v", "w", "x", "y", "z",
           "A", "B", "C", "D", "E", "F", "G", "H", "I", "J", "K", "L", "M",
           "N", "O", "P", "Q", "R", "S", "T", "U", "V", "W", "X", "Y", "Z"}

Whitespace == {" ", "\t", "\n", "\r", "\f"}

\* whether character c is matched by the pattern atom cls of the re module
InClass(c, cls) ==
    CASE cls = "\\d" -> c \in Digit
      [] cls = "\\w" -> c \in Digit \cup Letter \cup {"_"}
      [] cls = "\\S" -> c \notin Whitespace
      [] cls = "."   -> c # "\n"
      [] cls = "\\." -> c = "."
      [] cls = "\\/" -> c = "/"
      [] cls = "\\+" -> c = "+"
      [] cls = "\\-" -> c = "-"
      [] OTHER       -> c = cls

\* the pattern element cls{min,max}; cls+ and cls* have no upper limit
Rep(cls, min, max) == [cls |-> cls, min |-> min, max |-> max, unbounded |-> FALSE]
Lit(cls) == Rep(cls, 1, 1)
Plus(cls) == [cls |-> cls, min |-> 1, max |-> 1, unbounded |-> TRUE]

RECURSIVE Matches(_, _)
\* whether the whole of s is matched by the concatenation of the elements
Matches(items, s) ==
    IF items = << >> THEN s = << >>
    ELSE LET it == Head(items)
             hi == IF it.unbounded THEN Len(s) ELSE Min(it.max, Len(s))
         IN \E k \in it.min .. hi :
                /\ \A j \in 1 .. k : InClass(s[j], it.cls)
                /\ Matches(Tail(items), SubSeq(s, k + 1, Len(s)))

---------------------------------------------------------------------------
(* parse_log_data.  A line of the log is given as the nine stretches of    *)
(* text that the literal separators of the pattern cut it into:            *)
(*   <1> - - [<2>] "<3> <4> <5>" <6> <7> "<8>" "<9>                        *)
(* Stretch 1 runs from the start of the line and stretch 9 to its end; no  *)
(* stretch holds a newline, so no match spans two lines.                   *)

\* the sub-pattern of each named group: a sequence of alternatives
IpItems == << Rep("\\d", 1, 3), Lit("\\."), Rep("\\d", 1, 3), Lit("\\."),
              Rep("\\d", 1, 3), Lit("\\."), Rep("\\d", 1, 3) >>

TimestampItems == << Rep("\\d", 1, 2), Lit("\\/"), Rep("\\w", 3, 5), Lit("\\/"),
                     Rep("\\d", 4, 4), Lit(":"), Rep("\\d", 2, 2), Lit(":"),
                     Rep("\\d", 2, 2), Lit(":"), Rep("\\d", 2, 2), Lit(" "),
                     Lit("\\+"), Rep("\\d", 4, 4) >>

\* the groups of the pattern in order; ipName is "ipaddr" in cli.py and
\* "ip_addr" in logparse.py
pattern(ipName) ==
    << [name |-> ipName,       alts |-> << IpItems >>],
       [name |-> "timestamp",  alts |-> << TimestampItems >>],
       [name |-> "method",     alts |-> << << Rep("\\w", 3, 6) >> >>],
       [name |-> "path",       alts |-> << << Plus("\\S") >> >>],
       [name |-> "protocol",   alts |-> << << Plus("\\S") >> >>],
       [name |-> "status",     alts |-> << << Rep("\\d", 3, 3) >> >>],
       [name |-> "bytes",      alts |-> << << Plus("\\d") >>, << Rep("\\-", 0, 1) >> >>],
       [name |-> "referrer",   alts |-> << << Plus("\\S") >> >>],
       [name |-> "user_agent", alts |-> << << >> >>] >>

cli_pattern == pattern("ipaddr")

logparse_pattern == pattern("ip_addr")

\* whether the whole stretch s is matched by group g
GroupMatches(g, s) == \E a \in 1 .. Len(g.alts) : Matches(g.alts[a], s)

\* the pattern is not anchored on the left: the scan takes the leftmost
\* position of stretch 1 from which the first group reaches the separator
\* (0 when there is none)
FirstStart(g, s) ==
    LET ok == {i \in 1 .. Len(s) : GroupMatches(g, SubSeq(s, i, Len(s)))}
    IN IF ok = {} THEN 0 ELSE CHOOSE i \in ok : \A j \in ok : i <= j

\* the lazy (.*?)" of the last group ends at the first quote of stretch 9
\* (0 when there is none)
FirstQuote(s) ==
    LET qs == {i \in 1 .. Len(s) : s[i] = "\""}
    IN IF qs = {} THEN 0 ELSE CHOOSE i \in qs : \A j \in qs : i <= j

\* whether the pattern matches in the line
LineMatches(pat, line) ==
    /\ FirstStart(pat[1], line[1]) # 0
    /\ \A g \in 2 .. 8 : GroupMatches(pat[g], line[g])
    /\ FirstQuote(line[9]) # 0
    /\ \A j \in 1 .. FirstQuote(line[9]) - 1 : InClass(line[9][j], ".")

\* m.groupdict(): the captured text of every group, in group order
groupdict(pat, line) ==
    [g \in 1 .. 9 |->
        [k |-> pat[g].name,
         v |-> Join(CASE g = 1 -> SubSeq(line[1], FirstStart(pat[1], line[1]), Len(line[1]))
                      [] g = 9 -> SubSeq(line[9], 1, FirstQuote(line[9]) - 1)
                      [] OTHER -> line[g])]]

RECURSIVE parse_log_data(_, _)
\* [m.groupdict() for m in re.finditer(pattern, log)]
parse_log_data(pat, text) ==
    IF text = << >> THEN << >>
    ELSE (IF LineMatches(pat, Head(text)) THEN << groupdict(pat, Head(text)) >> ELSE << >>)
         \o parse_log_data(pat, Tail(text))

---------------------------------------------------------------------------
(* dicts                                                                   *)

\* key in d
HasKey(d, key) == \E i \in 1 .. Len(d) : d[i].k = key

\* d[key], for a key of d
Get(d, key) == d[CHOOSE i \in 1 .. Len(d) : d[i].k = key].v

\* list(d.keys())
Keys(d) == [i \in 1 .. Len(d) |-> d[i].k]

\* d[key] = value: a present key keeps its place, a new one goes last
Put(d, key, value) ==
    IF HasKey(d, key)
    THEN [i \in 1 .. Len(d) |-> IF d[i].k = key THEN [k |-> key, v |-> value] ELSE d[i]]
    ELSE Append(d, [k |-> key, v |-> value])

---------------------------------------------------------------------------
(* cli.py: filter_data                                                     *)

\* '=' in pair
HasEq(pair) == \E i \in 1 .. Len(pair) : pair[i] = "="

RECURSIVE split(_, _)
\* pair.split('='), continuing from the parts cut so far: a separator
\* opens a new part, any other piece extends the last part
split(pair, parts) ==
    IF pair = << >> THEN parts
    ELSE split(Tail(pair),
               IF Head(pair) = "="
               THEN Append(parts, "")
               ELSE [parts EXCEPT ![Len(parts)] = @ \o Head(pair)])

filter_key_list == << "ipaddr", "method", "protcol", "status" >>

InList(x, list) == \E i \in 1 .. Len(list) : list[i] = x

RECURSIVE clean_filters(_, _)
\* the "clean filters" loop: the filter_dict built from the tokens, or the
\* ValueError of unpacking a split that has not exactly two parts
clean_filters(tokens, filter_dict) ==
    IF tokens = << >> THEN [raised |-> "", dict |-> filter_dict]
    ELSE LET pair == Head(tokens)
             parts == split(pair, << "" >>)
         IN IF ~HasEq(pair) THEN clean_filters(Tail(tokens), filter_dict)
            ELSE IF Len(parts) # 2 THEN [raised |-> "ValueError", dict |-> filter_dict]
            ELSE IF ~InList(parts[1], filter_key_list)
                 THEN clean_filters(Tail(tokens), filter_dict)
            ELSE clean_filters(Tail(tokens), Put(filter_dict, parts[1], parts[2]))

\* the index: every (key, value) item of some entry, mapped to the list of
\* the entries that hold it
build_index(entries) ==
    LET items == UNION {{entries[i][j] : j \in 1 .. Len(entries[i])} : i \in 1 .. Len(entries)}
    IN [kv \in items |->
           SelectSeq(entries, LAMBDA e : \E j \in 1 .. Len(e) : e[j] = kv)]

\* all((key, value) in index and entry in index[(key, value)] for ...)
satisfies_all(entry, index, filter_dict) ==
    \A f \in 1 .. Len(filter_dict) :
        /\ filter_dict[f] \in DOMAIN index
        /\ InList(entry, index[filter_dict[f]])

\* filter_data(file_name, data, filter_list): the entries returned and the
\* counts it logs, or the exception it raises
filter_data(entries, tokens) ==
    LET cleaned == clean_filters(tokens, << >>)
        index == build_index(entries)
        filtered_data == SelectSeq(entries, LAMBDA e : satisfies_all(e, index, cleaned.dict))
    IN IF cleaned.raised # ""
       THEN [raised |-> cleaned.raised, value |-> << >>, logged |-> << >>]
       ELSE [raised |-> "", value |-> filtered_data, logged |-> << Len(filtered_data) >>]

---------------------------------------------------------------------------
(* write_output_file (the same text in cli.py and logparse.py)             *)

Absent == [exists |-> FALSE, rows |-> << >>]

\* what a write past the end of a file leaves in the gap
Hole == << "\\0" >>

\* headers = list(data[0].keys()); headers.insert(0, "source")
headers(entries) == << "source" >> \o Keys(entries[1])

\* a version that always opens for writing
OpenModeAlwaysW(file_exists) == "w"

\* the mode of open(output_file, "a" if file_exists else "w")
OpenMode(file_exists) == IF file_exists THEN "a" ELSE "w"

\* a version that writes the header on every call
NeedsHeaderAlways(file_exists) == TRUE

\* if not file_exists: writer.writeheader()
NeedsHeader(file_exists) == ~file_exists

\* open(output_file, mode): "w" creates or truncates, "a" creates or keeps
open(dest, mode) ==
    IF mode = "w" THEN [exists |-> TRUE, rows |-> << >>]
    ELSE [exists |-> TRUE, rows |-> dest.rows]

\* a write of one row through a handle: in mode "a" at the end of the
\* file, in mode "w" at the handle's own position pos (rows written so far)
write(dest, mode, pos, row) ==
    IF mode = "a" \/ pos = Len(dest.rows)
    THEN [dest EXCEPT !.rows = Append(@, row)]
    ELSE IF pos < Len(dest.rows)
    THEN [dest EXCEPT !.rows[pos + 1] = row]
    ELSE [dest EXCEPT !.rows = @ \o [i \in 1 .. pos - Len(@) |-> Hole] \o << row >>]

\* row["source"] = source; writer.writerow(row): the cells in fieldnames
\* order, "" for a field the row lacks
writerow(fieldnames, source, row) ==
    LET r == Put(row, "source", source)
    IN [i \in 1 .. Len(fieldnames) |->
           IF HasKey(r, fieldnames[i]) THEN Get(r, fieldnames[i]) ELSE ""]

RECURSIVE write_rows(_, _, _, _, _, _)
\* for row in data: ... writer.writerow(row)
write_rows(dest, mode, pos, fieldnames, source, entries) ==
    IF entries = << >> THEN dest
    ELSE write_rows(write(dest, mode, pos, writerow(fieldnames, source, Head(entries))),
                    mode, pos + 1, fieldnames, source, Tail(entries))

\* a version that opens the file before it looks at data
write_output_file_opens_first(dest, source, entries) ==
    IF entries = << >> THEN open(dest, OpenMode(dest.exists))
    ELSE LET mode == OpenMode(dest.exists)
             f == open(dest, mode)
             g == IF NeedsHeader(dest.exists) THEN write(f, mode, 0, headers(entries)) ELSE f
         IN write_rows(g, mode, Len(g.rows) - Len(f.rows), headers(entries), source, entries)

\* write_output_file(source, data, output_file) run alone: the destination
\* it leaves
write_output_file(dest, source, entries) ==
    IF entries = << >> THEN dest
    ELSE LET file_exists == dest.exists
             mode == OpenMode(file_exists)
             f == open(dest, mode)
             g == IF NeedsHeader(file_exists) THEN write(f, mode, 0, headers(entries)) ELSE f
         IN write_rows(g, mode, Len(g.rows) - Len(f.rows), headers(entries), source, entries)

---------------------------------------------------------------------------
(* The inputs the scenarios draw from.                                     *)

SegIp1 == << "1", "0", ".", "0", ".", "0", ".", "1" >>
SegIp2 == << "1", "0", ".", "0", ".", "0", ".", "2" >>
SegIpLong == << "1", "2", "3", "4", ".", "0", ".", "0", ".", "1" >>
SegIpBad == << "h", "o", "s", "t" >>
SegTs == << "2", "4", "/", "J", "a", "n", "/", "2", "0", "1", "8", ":", "0", "0", ":",
            "0", "1", ":", "1", "2", " ", "+", "0", "3", "0", "0" >>
SegGET == << "G", "E", "T" >>
SegPOST == << "P", "O", "S", "T" >>
SegPath == << "/", "x" >>
SegProto == << "H", "T", "T", "P", "/", "1", ".", "0" >>
SegRef == << "-" >>
SegUa == << "U", "A", "\"" >>
SegUaTail == << "U", "\"", "x", "\"" >>
SegUaOpen == << "U", "A" >>

StatusSegs == { << "2", "0", "0" >>, << "4", "0", "4" >>, << "2", "0" >>,
                << "2", "0", "0", "0" >>, << "2", "x", "0" >>, << >> }

BytesSegs == { << "1", "2" >>, << "0" >>, << "-" >>, << >>, << "-", "-" >>, << "1", "-" >> }

\* the lines of the parse scenario: every status and bytes text in an
\* otherwise well-formed line, and every first and last stretch
SampleLines ==
    { << SegIp1, SegTs, SegGET, SegPath, SegProto, st, by, SegRef, SegUa >> :
        st \in StatusSegs, by \in BytesSegs }
    \cup
    { << ip, SegTs, SegPOST, SegPath, SegProto, << "4", "0", "4" >>, << "-" >>, SegRef, ua >> :
        ip \in {SegIp2, SegIpLong, SegIpBad}, ua \in {SegUa, SegUaTail, SegUaOpen} }

SeqsUpTo(S, n) == UNION {[1 .. k -> S] : k \in 0 .. n}

LineA == << SegIp1, SegTs, SegGET, SegPath, SegProto, << "2", "0", "0" >>, << "1", "2" >>, SegRef, SegUa >>
LineB == << SegIp2, SegTs, SegPOST, SegPath, SegProto, << "4", "0", "4" >>, << "-" >>, SegRef, SegUa >>
LineC == << SegIp2, SegTs, SegGET, SegPath, SegProto, << "4", "0", "4" >>, << "0" >>, SegRef, SegUa >>
LineJunk == << SegIpBad, SegTs, SegGET, SegPath, SegProto, << "2", "0", "0" >>, << "1", "2" >>, SegRef, SegUa >>

\* the texts of the filter scenario
SampleTexts == { << >>, << LineA >>, << LineJunk >>, << LineA, LineB >>,
                 << LineB, LineJunk, LineA, LineC >> }

\* the filter tokens of the filter scenario
SampleTokens ==
    { << "status", "=", "200" >>, << "status", "=", "404" >>, << "method", "=", "GET" >>,
      << "protcol", "=", "HTTP/1.0" >>, << "protocol", "=", "HTTP/1.0" >>,
      << "protcol", "=", "HTTP/2" >>, << "protocol", "=", "HTTP/2" >>,
      << "ipaddr", "=", "10.0.0.1" >>, << "ip_addr", "=", "10.0.0.1" >>,
      << "status", "=", "200", "=", "1" >>, << "status" >>, << "status", "=" >>,
      << "colour", "=", "red" >>, << "=", "200" >> }

\* the input files of a run: name, whether open() succeeds, and content
SampleFiles ==
    { [name |-> "a.log", readable |-> TRUE, text |-> << LineA, LineJunk, LineB >>],
      [name |-> "b.log", readable |-> TRUE, text |-> << LineC >>],
      [name |-> "junk.log", readable |-> TRUE, text |-> << LineJunk >>],
      [name |-> "missing.log", readable |-> FALSE, text |-> << >>] }

\* the records parse_log_data returns for each file's content
cli_records == [f \in SampleFiles |-> parse_log_data(cli_pattern, f.text)]

logparse_records == [f \in SampleFiles |-> parse_log_data(logparse_pattern, f.text)]

\* -f takes one file or more; n bounds the length of the list
FileLists(n) == SeqsUpTo(SampleFiles, n) \ {<< >>}

\* the --filter options of a run; << >> when the option is not given
RunFilters == { << >>, << << "status", "=", "404" >> >>,
                << << "method", "=", "GET" >>, << "status", "=", "404" >> >>,
                << << "status", "=", "200", "=", "1" >> >> }

NoResult == [raised |-> "", value |-> << >>, logged |-> << >>]

---------------------------------------------------------------------------
(* Scenario: parse_log_data applied to a text.                             *)

IdleRun ==
    /\ file_list = << >> /\ file_no = 0 /\ destination = Absent /\ exit_code = -1
    /\ counts = << >> /\ sunk = << >> /\ opened = << >> /\ run_no = 0 /\ named = 0
    /\ filter_key = "" /\ filter_value = ""

IdleWriters == writers = << >> /\ serialised = TRUE

InitParse ==
    /\ pc = "parse"
    /\ log \in SeqsUpTo(SampleLines, MaxLines)
    /\ data = << >> /\ filter_list = << >> /\ filtered = NoResult
    /\ IdleRun /\ IdleWriters

\* cli.py: data = parse_log_data(f.read())
ParseLogCli ==
    /\ pc = "parse"
    /\ data' = parse_log_data(cli_pattern, log)
    /\ pc' = "parsed"
    /\ UNCHANGED << log, filter_list, filtered, filter_key, filter_value, file_list,
                    file_no, destination, exit_code, counts, sunk, opened, run_no,
                    named, writers, serialised >>

\* logparse.py: log_data = parse_log_data(f.read())
ParseLogLogparse ==
    /\ pc = "parse"
    /\ data' = parse_log_data(logparse_pattern, log)
    /\ pc' = "parsed"
    /\ UNCHANGED << log, filter_list, filtered, filter_key, filter_value, file_list,
                    file_no, destination, exit_code, counts, sunk, opened, run_no,
                    named, writers, serialised >>

NextParse == ParseLogCli \/ ParseLogLogparse

SpecParse == InitParse /\ [][NextParse]_vars

---------------------------------------------------------------------------
(* Scenario: cli.py's filter_data applied to the records of a text.        *)

InitFilter ==
    /\ pc = "parse"
    /\ log \in SampleTexts
    /\ filter_list \in SeqsUpTo(SampleTokens, MaxTokens)
    /\ data = << >> /\ filtered = NoResult
    /\ IdleRun /\ IdleWriters

\* data = filter_data(file_name, data, filter_list)
FilterData ==
    /\ pc = "parsed"
    /\ filtered' = filter_data(data, filter_list)
    /\ pc' = "filtered"
    /\ UNCHANGED << log, data, filter_list, filter_key, filter_value, file_list,
                    file_no, destination, exit_code, counts, sunk, opened, run_no,
                    named, writers, serialised >>

NextFilter == ParseLogCli \/ FilterData

SpecFilter == InitFilter /\ [][NextFilter]_vars

---------------------------------------------------------------------------
(* Scenario: runs of cli.py's main against one destination path.  One      *)
(* step is one pass of the loop of read_files; an exception leaves the     *)
(* loop and read_files and is caught in main, which returns 255.           *)

InitRun ==
    /\ pc = "read"
    /\ file_list \in FileLists(MaxFiles)
    /\ filter_list \in RunFilters
    /\ file_no = 1 /\ run_no = 1 /\ named = Len(file_list)
    /\ destination = Absent /\ exit_code = -1
    /\ counts = << >> /\ sunk = << >> /\ opened = << >>
    /\ log = << >> /\ data = << >> /\ filtered = NoResult
    /\ filter_key = "" /\ filter_value = ""
    /\ IdleWriters

\* one pass of the loop over a file that opens: parse, filter when tokens
\* were given, write
ReadFile ==
    /\ pc = "read"
    /\ file_no <= Len(file_list)
    /\ file_list[file_no].readable
    /\ LET f == file_list[file_no]
           parsed == cli_records[f]
           res == IF filter_list # << >>
                  THEN filter_data(parsed, filter_list)
                  ELSE [raised |-> "", value |-> parsed, logged |-> << >>]
       IN /\ log' = f.text
          /\ data' = parsed
          /\ filtered' = res
          /\ opened' = Append(opened, f.name)
          /\ IF res.raised # ""
             THEN /\ pc' = "done"
                  /\ exit_code' = 255
                  /\ UNCHANGED << file_no, destination, counts, sunk >>
             ELSE /\ counts' = counts \o [i \in 1 .. Len(res.logged) |-> << f.name, res.logged[i] >>]
                  /\ destination' = write_output_file(destination, f.name, res.value)
                  /\ sunk' = Append(sunk, [run |-> run_no, source |-> f.name, data |-> res.value])
                  /\ file_no' = file_no + 1
                  /\ UNCHANGED << pc, exit_code >>
    /\ UNCHANGED << filter_list, filter_key, filter_value, file_list, run_no,
                    named, writers, serialised >>

\* a version that logs the error of a file that does not open and goes on
\* with the next file
OpenFailsSkip ==
    /\ pc = "read"
    /\ file_no <= Len(file_list)
    /\ ~file_list[file_no].readable
    /\ file_no' = file_no + 1
    /\ UNCHANGED << pc, exit_code, log, data, filter_list, filtered, filter_key,
                    filter_value, file_list, destination, counts, sunk, opened,
                    run_no, named, writers, serialised >>

\* open(file_name, "r") raises: the exception ends read_files, main logs it
\* and returns 255
OpenFails ==
    /\ pc = "read"
    /\ file_no <= Len(file_list)
    /\ ~file_list[file_no].readable
    /\ pc' = "done"
    /\ exit_code' = 255
    /\ UNCHANGED << log, data, filter_list, filtered, filter_key, filter_value,
                    file_list, file_no, destination, counts, sunk, opened, run_no,
                    named, writers, serialised >>

\* the loop is over: read_files returns, main returns None (exit status 0)
Return ==
    /\ pc = "read"
    /\ file_no > Len(file_list)
    /\ pc' = "done"
    /\ exit_code' = 0
    /\ UNCHANGED << log, data, filter_list, filtered, filter_key, filter_value,
                    file_list, file_no, destination, counts, sunk, opened, run_no,
                    named, writers, serialised >>

\* the program is started again with the same output path
NextRun ==
    /\ pc = "done"
    /\ named < MaxFiles
    /\ run_no' = run_no + 1
    /\ file_list' \in FileLists(MaxFiles - named)
    /\ named' = named + Len(file_list')
    /\ filter_list' \in RunFilters
    /\ file_no' = 1
    /\ pc' = "read"
    /\ exit_code' = -1
    /\ counts' = << >>
    /\ opened' = << >>
    /\ log' = << >> /\ data' = << >> /\ filtered' = NoResult
    /\ UNCHANGED << filter_key, filter_value, destination, sunk, writers, serialised >>

Next == ReadFile \/ OpenFails \/ Return \/ NextRun

Init == InitRun

Spec == Init /\ [][Next]_vars


---------------------------------------------------------------------------
(* Scenario: one run of logparse.py's main.  Its main and the frame of     *)
(* its read_files loop are those of cli.py, so OpenFails and Return serve  *)
(* both; the pass of the loop differs.                                     *)

FilterKeys == { "", "ip_addr", "ipaddr", "protocol", "protcol", "method", "status", "colour" }

FilterValues == { "", "404", "GET", "10.0.0.2", "HTTP/1.0" }

InitLogparse ==
    /\ pc = "read"
    /\ file_list \in FileLists(MaxFiles)
    /\ filter_key \in FilterKeys
    /\ filter_value \in FilterValues
    /\ file_no = 1 /\ run_no = 1 /\ named = Len(file_list)
    /\ destination = Absent /\ exit_code = -1
    /\ counts = << >> /\ sunk = << >> /\ opened = << >>
    /\ log = << >> /\ data = << >> /\ filtered = NoResult /\ filter_list = << >>
    /\ IdleWriters

\* one pass of the loop of logparse.py's read_files over a file that opens;
\* d[filter_key] raises KeyError for a record without that key
LpReadFile ==
    /\ pc = "read"
    /\ file_no <= Len(file_list)
    /\ file_list[file_no].readable
    /\ LET f == file_list[file_no]
           log_data == logparse_records[f]
           filtering == filter_key # "" /\ filter_value # ""
           key_error == filtering /\ \E i \in 1 .. Len(log_data) : ~HasKey(log_data[i], filter_key)
           filtered_data == SelectSeq(log_data, LAMBDA d : Get(d, filter_key) = filter_value)
       IN /\ log' = f.text
          /\ data' = log_data
          /\ opened' = Append(opened, f.name)
          /\ IF key_error
             THEN /\ filtered' = [raised |-> "KeyError", value |-> << >>, logged |-> << >>]
                  /\ pc' = "done"
                  /\ exit_code' = 255
                  /\ UNCHANGED << file_no, destination, counts, sunk >>
             ELSE LET out == IF filtering THEN filtered_data ELSE log_data
                      logged == IF filtering THEN << Len(filtered_data) >> ELSE << >>
                  IN /\ filtered' = [raised |-> "", value |-> out, logged |-> logged]
                     /\ counts' = counts \o [i \in 1 .. Len(logged) |-> << f.name, logged[i] >>]
                     /\ destination' = write_output_file(destination, f.name, out)
                     /\ sunk' = Append(sunk, [run |-> run_no, source |-> f.name, data |-> out])
                     /\ file_no' = file_no + 1
                     /\ UNCHANGED << pc, exit_code >>
    /\ UNCHANGED << filter_list, filter_key, filter_value, file_list, run_no,
                    named, writers, serialised >>

NextLogparse == LpReadFile \/ OpenFails \/ Return

SpecLogparse == InitLogparse /\ [][NextLogparse]_vars

---------------------------------------------------------------------------
(* Scenario: two invocations of write_output_file against the same path,   *)
(* each statement of the function a step of its own.  When serialised, an  *)
(* invocation takes its steps only while the other has not begun or has    *)
(* returned.  (Python buffers the writes of a handle and hands them to the *)
(* file when the with block closes it; every order of writes that gives    *)
(* is among the orders of the steps below.)                                *)

Writers == {1, 2}

WriterSources == << "a.log", "b.log" >>

\* the records the invocations are given: those of a.log
RecordPool ==
    LET recs == parse_log_data(cli_pattern, << LineA, LineJunk, LineB >>)
    IN {recs[i] : i \in 1 .. Len(recs)}

\* a call with non-empty data of at most MaxRows records
WriterData == SeqsUpTo(RecordPool, MaxRows) \ {<< >>}

InitWriters ==
    /\ pc = "writers"
    /\ writers \in [Writers -> {[pc |-> "start", source |-> "", data |-> d,
                                 file_exists |-> FALSE, pos |-> 0, next |-> 1] : d \in WriterData}]
    /\ serialised \in BOOLEAN
    /\ destination = Absent
    /\ sunk = << >>
    /\ log = << >> /\ data = << >> /\ filter_list = << >> /\ filtered = NoResult
    /\ file_list = << >> /\ file_no = 0 /\ exit_code = -1 /\ counts = << >>
    /\ opened = << >> /\ run_no = 0 /\ named = 0
    /\ filter_key = "" /\ filter_value = ""

\* whether writer w may take a step
MayStep(w) ==
    serialised => \A o \in Writers \ {w} : writers[o].pc \in {"start", "done"}

WriterFrame ==
    UNCHANGED << pc, log, data, filter_list, filtered, filter_key, filter_value,
                 file_list, file_no, exit_code, counts, opened, run_no, named,
                 serialised >>

\* if not data: return; file_exists = os.path.exists(output_file)
WCheck(w) ==
    /\ pc = "writers" /\ writers[w].pc = "start" /\ MayStep(w)
    /\ writers' = [writers EXCEPT ![w].source = WriterSources[w],
                                  ![w].file_exists = destination.exists,
                                  ![w].pc = IF writers[w].data = << >> THEN "done" ELSE "open"]
    /\ sunk' = Append(sunk, [run |-> 0, source |-> WriterSources[w], data |-> writers[w].data])
    /\ UNCHANGED destination
    /\ WriterFrame

\* with open(output_file, "a" if file_exists else "w") as f
WOpen(w) ==
    /\ pc = "writers" /\ writers[w].pc = "open" /\ MayStep(w)
    /\ destination' = open(destination, OpenMode(writers[w].file_exists))
    /\ writers' = [writers EXCEPT ![w].pos = 0,
                                  ![w].pc = IF NeedsHeader(writers[w].file_exists)
                                            THEN "header" ELSE "rows"]
    /\ UNCHANGED sunk
    /\ WriterFrame

\* writer.writeheader()
WHeader(w) ==
    /\ pc = "writers" /\ writers[w].pc = "header" /\ MayStep(w)
    /\ destination' = write(destination, OpenMode(writers[w].file_exists), writers[w].pos,
                            headers(writers[w].data))
    /\ writers' = [writers EXCEPT ![w].pos = @ + 1, ![w].pc = "rows"]
    /\ UNCHANGED sunk
    /\ WriterFrame

\* one pass of: for row in data: row["source"] = source; writer.writerow(row)
WRow(w) ==
    /\ pc = "writers" /\ writers[w].pc = "rows" /\ MayStep(w)
    /\ writers[w].next <= Len(writers[w].data)
    /\ destination' = write(destination, OpenMode(writers[w].file_exists), writers[w].pos,
                            writerow(headers(writers[w].data), writers[w].source,
                                     writers[w].data[writers[w].next]))
    /\ writers' = [writers EXCEPT ![w].pos = @ + 1, ![w].next = @ + 1]
    /\ UNCHANGED sunk
    /\ WriterFrame

\* the loop is over: the with block closes the file and the call returns
WClose(w) ==
    /\ pc = "writers" /\ writers[w].pc = "rows" /\ MayStep(w)
    /\ writers[w].next > Len(writers[w].data)
    /\ writers' = [writers EXCEPT ![w].pc = "done"]
    /\ UNCHANGED << destination, sunk >>
    /\ WriterFrame

NextWriters == \E w \in Writers : WCheck(w) \/ WOpen(w) \/ WHeader(w) \/ WRow(w) \/ WClose(w)

SpecWriters == InitWriters /\ [][NextWriters]_vars

---------------------------------------------------------------------------
(* What the claims speak of, stated apart from the code above.             *)

\* the header row of the destination in cli.py's spelling
HeaderRow == << "source", "ipaddr", "timestamp", "method", "path", "protocol",
                "status", "bytes", "referrer", "user_agent" >>

\* the row of a record: the source label, then the nine field values
RowOf(source, rec) == << source >> \o [i \in 1 .. Len(rec) |-> rec[i].v]

RECURSIVE RowsOfCalls(_)
\* the rows of a sequence of sink calls, in call order and record order
RowsOfCalls(calls) ==
    IF calls = << >> THEN << >>
    ELSE [i \in 1 .. Len(Head(calls).data) |-> RowOf(Head(calls).source, Head(calls).data[i])]
         \o RowsOfCalls(Tail(calls))

\* one header row, then the rows of every call; no file when no call had data
ExpectedDestination(calls) ==
    IF RowsOfCalls(calls) = << >> THEN Absent
    ELSE [exists |-> TRUE, rows |-> << HeaderRow >> \o RowsOfCalls(calls)]

\* the sink calls of the run in progress
RunCalls == SelectSeq(sunk, LAMBDA c : c.run = run_no)

---------------------------------------------------------------------------
(* C5: over any sequence of write_output_file calls made one after the     *)
(* other, in one run and across runs, against a destination absent at      *)
(* first, the destination is absent while no call had data and otherwise   *)
(* is one header row followed by the rows of every call, in call order     *)
(* and record order.                                                       *)
C5_HeaderOnceAppendAfter == destination = ExpectedDestination(sunk)

\* C5's case: two calls with data in one run and a third in a later run
C5_Witness ==
    \E i, j, k \in DOMAIN sunk :
        /\ i < j /\ j < k
        /\ sunk[i].data # << >> /\ sunk[j].data # << >> /\ sunk[k].data # << >>
        /\ sunk[i].run = sunk[j].run /\ sunk[j].run < sunk[k].run

(* C6: a write_output_file call with an empty record list leaves the       *)
(* destination as it was, absent or not; so while every call so far had    *)
(* no records the destination does not exist.                              *)
C6_EmptyWriteLeavesDestination ==
    /\ [][(sunk' # sunk /\ sunk'[Len(sunk')].data = << >>) => destination' = destination]_vars
    /\ []((\A i \in DOMAIN sunk : sunk[i].data = << >>) => destination = Absent)

\* C6's case: an empty call on an absent destination, and a later empty
\* call on the destination once it exists
C6_Witness ==
    \E i, j, k \in DOMAIN sunk :
        /\ i < j /\ j < k
        /\ sunk[i].data = << >> /\ sunk[j].data # << >> /\ sunk[k].data = << >>
        /\ destination = ExpectedDestination(sunk)

\* the index of the first file of the list that does not open (0: none)
FirstUnreadable ==
    LET bad == {i \in DOMAIN file_list : ~file_list[i].readable}
    IN IF bad = {} THEN 0 ELSE CHOOSE i \in bad : \A j \in bad : i <= j

(* C7: when a run of cli.py has ended and a file of its list does not      *)
(* open (no earlier exception having ended the run), main returned 255,    *)
(* the files before the first such file and no others were read and        *)
(* handed to the sink, in order, and the destination holds the rows of     *)
(* the calls made so far.                                                  *)
C7_UnreadableFileIsFatal ==
    (pc = "done" /\ FirstUnreadable # 0 /\ filtered.raised = "") =>
        /\ exit_code = 255
        /\ file_no = FirstUnreadable
        /\ opened = [i \in 1 .. FirstUnreadable - 1 |-> file_list[i].name]
        /\ [i \in 1 .. Len(RunCalls) |-> RunCalls[i].source] = opened
        /\ destination = ExpectedDestination(sunk)

\* C7's case: the second file does not open, the first left rows in the
\* destination, and a third file is never read
C7_Witness ==
    /\ pc = "done" /\ exit_code = 255
    /\ file_no = 2 /\ Len(file_list) = 3
    /\ ~file_list[2].readable /\ file_list[3].readable
    /\ destination.exists /\ Len(opened) = 1

AllDone == pc = "writers" /\ \A w \in Writers : writers[w].pc = "done"

\* one header row followed by all rows of both invocations, in either order
OneHeaderAllRows ==
    \/ destination = ExpectedDestination(sunk)
    \/ destination = ExpectedDestination(<< sunk[2], sunk[1] >>)

(* C8: when the two invocations are serialised and both have returned,     *)
(* the destination is one header row followed by the rows of the           *)
(* invocation that ran first and then those of the other.  (That an        *)
(* unserialised interleaving ends otherwise is C8_Witness, which is        *)
(* reached.)                                                               *)
C8_SerialisedWritersKeepInvariant ==
    (AllDone /\ serialised) => destination = ExpectedDestination(sunk)

\* C8's case: both unserialised invocations have returned and the
\* destination is not one header row followed by all rows of both
C8_Witness == AllDone /\ ~serialised /\ ~OneHeaderAllRows

---------------------------------------------------------------------------
(* How the claims read a filter token, stated apart from split().          *)

EqCount(t) == Cardinality({i \in DOMAIN t : t[i] = "="})

\* exactly one "=": key=value
WellFormed(t) == EqCount(t) = 1

EqAt(t) == CHOOSE i \in DOMAIN t : t[i] = "="

TokenKey(t) == Join(SubSeq(t, 1, EqAt(t) - 1))

TokenValue(t) == Join(SubSeq(t, EqAt(t) + 1, Len(t)))

RecognisedKeys == { "ipaddr", "method", "protcol", "status" }

\* a token that constrains the result: well formed, with a recognised key
Applies(t) == WellFormed(t) /\ TokenKey(t) \in RecognisedKeys

\* record[key] == value
FieldIs(rec, key, value) == HasKey(rec, key) /\ Get(rec, key) = value

(* C1: when filter_data returns, its result is the subsequence of data,    *)
(* in input order, of the records that satisfy every well-formed token     *)
(* with a recognised key, also when two tokens name the same key.          *)
C1_FilterSatisfiesEveryToken ==
    (pc = "filtered" /\ filtered.raised = "") =>
        filtered.value =
            SelectSeq(data, LAMBDA rec :
                \A i \in DOMAIN filter_list :
                    Applies(filter_list[i]) =>
                        FieldIs(rec, TokenKey(filter_list[i]), TokenValue(filter_list[i])))

(* C2: filter_data returns normally for every token list, and when no      *)
(* token is both well formed and recognised the result is data itself.     *)
C2_MalformedTokensNeverRaise ==
    pc = "filtered" =>
        /\ filtered.raised = ""
        /\ (\A i \in DOMAIN filter_list : ~Applies(filter_list[i])) => filtered.value = data

\* the record field each spelling of an aliased key stands for in cli.py
AliasField == [k \in {"protcol", "protocol", "ipaddr", "ip_addr"} |->
                  IF k \in {"protcol", "protocol"} THEN "protocol" ELSE "ipaddr"]

(* C3: filter_data with the single token K=V, K either spelling of an      *)
(* aliased key, returns exactly the records whose protocol field (for      *)
(* protcol and protocol) or IP-address field (for ipaddr and ip_addr)      *)
(* equals V.                                                               *)
C3_AliasKeysSelectSameField ==
    (/\ pc = "filtered"
     /\ Len(filter_list) = 1
     /\ WellFormed(filter_list[1])
     /\ TokenKey(filter_list[1]) \in DOMAIN AliasField) =>
        /\ filtered.raised = ""
        /\ filtered.value =
               SelectSeq(data, LAMBDA rec :
                   FieldIs(rec, AliasField[TokenKey(filter_list[1])], TokenValue(filter_list[1])))

\* the field names of a record of logparse.py
LogparseFields == {logparse_pattern[g].name : g \in DOMAIN logparse_pattern}

(* C4: when a run of logparse.py with filter_key and filter_value both     *)
(* set has ended, every file opening, and filter_key is no field of a      *)
(* record, the run did not end in the error outcome: every file was read,  *)
(* each contributed zero records, and the destination was not created.     *)
C4_AbsentKeyFailsRecordWithoutError ==
    (/\ pc = "done"
     /\ filter_key # "" /\ filter_value # ""
     /\ filter_key \notin LogparseFields
     /\ \A i \in DOMAIN file_list : file_list[i].readable) =>
        /\ exit_code = 0
        /\ opened = [i \in DOMAIN file_list |-> file_list[i].name]
        /\ \A i \in DOMAIN sunk : sunk[i].data = << >>
        /\ destination = Absent

(* C9: in a run of cli.py, with or without filter tokens, the counts       *)
(* reported so far are one per file handed to the sink, in file order,     *)
(* each the number of records handed to the sink for that file.            *)
C9_OneCountPerFile ==
    counts = [i \in 1 .. Len(RunCalls) |-> << RunCalls[i].source, Len(RunCalls[i].data) >>]

\* the strings of exactly three digits
ThreeDigits == {a \o b \o c : a \in Digit, b \in Digit, c \in Digit}

\* the non-empty strings of digits among the bytes texts of the scenario
DigitStrings == {Join(t) : t \in {u \in BytesSegs : u # << >> /\ \A i \in DOMAIN u : u[i] \in Digit}}

(* C10: every record parse_log_data returns has a status of exactly three  *)
(* digits and a bytes field that is a non-empty string of digits or "-";   *)
(* none has the empty string as bytes.                                     *)
C10_StatusAndBytesShape ==
    pc = "parsed" =>
        \A i \in DOMAIN data :
            /\ Get(data[i], "status") \in ThreeDigits
            /\ Get(data[i], "bytes") \in DigitStrings \cup {"-"}

=============================================================================
